---- MODULE Spec2Model ----
(***************************************************************************)
(* Model of src/client/real.rs: the Sentry client's event preparation      *)
(* (scope merge, defaulting, stack frame classification), crate name       *)
(* extraction, and the client / init-guard lifecycle.                      *)
(*                                                                         *)
(* Strings that the code inspects character by character (function names,  *)
(* prefixes) are sequences of one-character strings.  Option<T> is a       *)
(* sequence of length 0 (None) or 1 (Some(x)).  Maps are functions with a  *)
(* finite domain.                                                          *)
(***************************************************************************)
EXTENDS Integers, Sequences, FiniteSets, TLC

VARIABLES
    options,     \* Client.options (ClientOptions), fixed at construction
    transport,   \* Client.transport: None (disabled) or Some(channel state)
    input,       \* the Event passed to the last capture_event
    scope,       \* the Option<&Scope> passed to the last capture_event
    classified,  \* the stack traces at line 408 (after the per-frame loop)
    sent,        \* Option: the Event handed to Transport::send_event last
    ret,         \* Uuid returned by the last capture_event (0 = nil)
    prepareCalls,\* number of prepare_event runs
    sendCalls,   \* number of Transport::send_event calls
    drainers,    \* per caller of drain_events: its position and result
    guard,       \* the ClientInitGuard: what it holds, its position in drop
    parseIn,     \* argument of parse_crate_name
    parseOut,    \* Option: result of parse_crate_name
    phase        \* which operation ran last

vars == <<options, transport, input, scope, classified, sent, ret,
          prepareCalls, sendCalls, drainers, guard, parseIn, parseOut, phase>>

(***************************************************************************)
(* Option<T>                                                               *)
(***************************************************************************)
None == <<>>

Some(x) == <<x>>

IsNone(o) == Len(o) = 0

IsSome(o) == Len(o) = 1

Unwrap(o) == o[1]

(***************************************************************************)
(* Bounds of the model                                                     *)
(***************************************************************************)
\* number of distinct keys a tags / extra / contexts map can hold
MaxKeys == 2

\* longest stack trace of the first exception of a record
MaxFrames == 2

\* longest random function name given to parse_crate_name
MaxNameLen == 4

\* number of capture_event calls on an enabled client in the lifecycle model
MaxSends == 2

\* number of holders of the shared client calling drain_events themselves
MaxHolders == 2

(***************************************************************************)
(* Maps: HashMap::extend inserts every pair of the iterator, and insert    *)
(* replaces the value of a key that is already there.                      *)
(***************************************************************************)
EmptyMap == <<>>

MapIsEmpty(m) == DOMAIN m = {}

\* insert-if-absent: what extend would be if it kept existing entries
MapExtendKeepExisting(m, s) ==
    [k \in DOMAIN m \cup DOMAIN s |-> IF k \in DOMAIN m THEN m[k] ELSE s[k]]

MapExtend(m, s) ==
    [k \in DOMAIN m \cup DOMAIN s |-> IF k \in DOMAIN s THEN s[k] ELSE m[k]]

(***************************************************************************)
(* prepare_event, lines 270-321: the scope merge                           *)
(***************************************************************************)
MergeBreadcrumbs(event, sc) ==
    IF sc.breadcrumbs # <<>>
    THEN [event EXCEPT !.breadcrumbs = event.breadcrumbs \o sc.breadcrumbs]
    ELSE event

\* a merge that always takes the scope's user
MergeUserOverwrite(event, sc) ==
    IF IsSome(sc.user) THEN [event EXCEPT !.user = sc.user] ELSE event

MergeUser(event, sc) ==
    IF IsNone(event.user) /\ IsSome(sc.user)
    THEN [event EXCEPT !.user = sc.user]
    ELSE event

MergeExtra(event, sc) ==
    IF ~MapIsEmpty(sc.extra)
    THEN [event EXCEPT !.extra = MapExtend(event.extra, sc.extra)]
    ELSE event

MergeTags(event, sc) ==
    IF ~MapIsEmpty(sc.tags)
    THEN [event EXCEPT !.tags = MapExtend(event.tags, sc.tags)]
    ELSE event

MergeContexts(event, sc) ==
    IF ~MapIsEmpty(sc.contexts)
    THEN [event EXCEPT !.contexts = MapExtend(event.contexts, sc.contexts)]
    ELSE event

MergeTransaction(event, sc) ==
    IF IsNone(event.transaction) /\ IsSome(sc.transaction)
    THEN [event EXCEPT !.transaction = sc.transaction]
    ELSE event

DefaultFingerprintSpaced == "{{ default }}"

DefaultFingerprintTight == "{{default}}"

\* a sentinel test that forgets the length check
IsDefaultFingerprintAnyLen(fp) ==
    /\ Len(fp) >= 1
    /\ (fp[1] = DefaultFingerprintSpaced \/ fp[1] = DefaultFingerprintTight)

IsDefaultFingerprint(fp) ==
    /\ Len(fp) = 1
    /\ (fp[1] = DefaultFingerprintSpaced \/ fp[1] = DefaultFingerprintTight)

MergeFingerprint(event, sc) ==
    IF IsDefaultFingerprint(event.fingerprint) /\ IsSome(sc.fingerprint)
    THEN [event EXCEPT !.fingerprint = Unwrap(sc.fingerprint)]
    ELSE event

ScopeMerge(event, osc) ==
    IF IsSome(osc)
    THEN LET sc == Unwrap(osc)
         IN  MergeFingerprint(
               MergeTransaction(
                 MergeContexts(
                   MergeTags(
                     MergeExtra(
                       MergeUser(
                         MergeBreadcrumbs(event, sc), sc), sc), sc), sc), sc), sc)
    ELSE event

(***************************************************************************)
(* prepare_event, lines 323-342: defaults from the configuration           *)
(***************************************************************************)
SDK_INFO == "sentry-rust"

DEBUG_META == <<"images">>

ApplyDefaults(event, opts) ==
    [event EXCEPT
        !.release     = IF IsNone(@) THEN opts.release ELSE @,
        !.environment = IF IsNone(@) THEN opts.environment ELSE @,
        !.server_name = IF IsNone(@) THEN opts.server_name ELSE @,
        !.sdk_info    = IF IsNone(@) THEN Some(SDK_INFO) ELSE @,
        !.platform    = IF @ = "other" THEN "native" ELSE @,
        !.debug_meta  = IF @ = <<>> THEN DEBUG_META ELSE @]

(***************************************************************************)
(* parse_crate_name, lines 89-99:                                          *)
(*   CRATE_RE = ^(?:_<)?([a-zA-Z0-9_]+?)(?:\.\.|::)                        *)
(* matched the way the regex engine defines it: the optional marker is     *)
(* tried first and given up on failure, the identifier group is lazy.      *)
(***************************************************************************)
Letters ==
    {"a","b","c","d","e","f","g","h","i","j","k","l","m",
     "n","o","p","q","r","s","t","u","v","w","x","y","z",
     "A","B","C","D","E","F","G","H","I","J","K","L","M",
     "N","O","P","Q","R","S","T","U","V","W","X","Y","Z"}

Digits == {"0","1","2","3","4","5","6","7","8","9"}

IsIdentChar(c) == c \in Letters \cup Digits \cup {"_"}

\* (?:\.\.|::) at position i
SeparatorAt(name, i) ==
    /\ i + 1 <= Len(name)
    /\ \/ (name[i] = "." /\ name[i + 1] = ".")
       \/ (name[i] = ":" /\ name[i + 1] = ":")

\* (?:_<) at the start
HasMarker(name) == Len(name) >= 2 /\ name[1] = "_" /\ name[2] = "<"

\* ([a-zA-Z0-9_]+?)(?:\.\.|::) starting at `start`, trying n, n+1, ...
\* characters for the group
RECURSIVE LazyIdent(_, _, _)
LazyIdent(name, start, n) ==
    IF start + n - 1 > Len(name) THEN None
    ELSE IF ~IsIdentChar(name[start + n - 1]) THEN None
    ELSE IF SeparatorAt(name, start + n) THEN Some(SubSeq(name, start, start + n - 1))
    ELSE LazyIdent(name, start, n + 1)

\* the regex without its optional (?:_<) prefix
ParseCrateNameNoMarker(func_name) == LazyIdent(func_name, 1, 1)

parse_crate_name(func_name) ==
    IF HasMarker(func_name) /\ IsSome(LazyIdent(func_name, 3, 1))
    THEN LazyIdent(func_name, 3, 1)
    ELSE LazyIdent(func_name, 1, 1)

(***************************************************************************)
(* Collaborators of the frame pass that live in other modules of the       *)
(* crate (backtrace_support::is_sys_function, utils::trim_stacktrace)      *)
(***************************************************************************)
StartsWith(name, prefix) ==
    /\ Len(prefix) <= Len(name)
    /\ SubSeq(name, 1, Len(prefix)) = prefix

\* module prefixes of the runtime: "s::"
WELL_KNOWN_SYS_MODULES == {<<"s", ":", ":">>}

\* function names that mark the border to runtime internals: "s::p"
WELL_KNOWN_BORDER_FRAMES == {<<"s", ":", ":", "p">>}

is_sys_function(func_name) ==
    \E m \in WELL_KNOWN_SYS_MODULES : StartsWith(func_name, m)

is_well_known(frame) ==
    IsSome(frame.function) /\ Unwrap(frame.function) \in WELL_KNOWN_BORDER_FRAMES

\* the closure prepare_event passes to trim_stacktrace, lines 348-354
ExtraBorderFrame(frame, opts) ==
    IF IsSome(frame.function)
    THEN \E i \in 1..Len(opts.extra_border_frames) :
            opts.extra_border_frames[i] = Unwrap(frame.function)
    ELSE FALSE

\* removes the trailing contiguous run of border frames
RECURSIVE trim_stacktrace(_, _)
trim_stacktrace(frames, opts) ==
    IF frames = <<>> THEN <<>>
    ELSE IF is_well_known(frames[Len(frames)]) \/ ExtraBorderFrame(frames[Len(frames)], opts)
         THEN trim_stacktrace(SubSeq(frames, 1, Len(frames) - 1), opts)
         ELSE frames

(***************************************************************************)
(* prepare_event, lines 344-417: trimming, the per-frame loop and the      *)
(* fallback                                                                *)
(***************************************************************************)
\* trimming whatever the configuration says
TrimPassAlways(frames, opts) == trim_stacktrace(frames, opts)

TrimPass(frames, opts) ==
    IF opts.trim_backtraces THEN trim_stacktrace(frames, opts) ELSE frames

MatchesAny(func_name, prefixes) ==
    \E i \in 1..Len(prefixes) : StartsWith(func_name, prefixes[i])

\* the loop body with the include list consulted before the exclude list
ClassifyFrameIncludeFirst(frame, opts) ==
    IF IsNone(frame.function) THEN [frame |-> frame, hit |-> FALSE]
    ELSE LET func_name == Unwrap(frame.function)
             f1 == IF IsNone(frame.package)
                   THEN [frame EXCEPT !.package = parse_crate_name(func_name)]
                   ELSE frame
         IN  IF f1.in_app = Some(TRUE) THEN [frame |-> f1, hit |-> TRUE]
             ELSE IF f1.in_app = Some(FALSE) THEN [frame |-> f1, hit |-> FALSE]
             ELSE IF MatchesAny(func_name, opts.in_app_include)
                  THEN [frame |-> [f1 EXCEPT !.in_app = Some(TRUE)], hit |-> TRUE]
             ELSE IF MatchesAny(func_name, opts.in_app_exclude)
                  THEN [frame |-> [f1 EXCEPT !.in_app = Some(FALSE)], hit |-> FALSE]
             ELSE IF is_sys_function(func_name)
                  THEN [frame |-> [f1 EXCEPT !.in_app = Some(FALSE)], hit |-> FALSE]
             ELSE [frame |-> f1, hit |-> FALSE]

\* one iteration of the loop of lines 359-407: the frame as the iteration
\* leaves it, and whether the iteration set any_in_app
ClassifyFrame(frame, opts) ==
    IF IsNone(frame.function) THEN [frame |-> frame, hit |-> FALSE]
    ELSE LET func_name == Unwrap(frame.function)
             f1 == IF IsNone(frame.package)
                   THEN [frame EXCEPT !.package = parse_crate_name(func_name)]
                   ELSE frame
         IN  IF f1.in_app = Some(TRUE) THEN [frame |-> f1, hit |-> TRUE]
             ELSE IF f1.in_app = Some(FALSE) THEN [frame |-> f1, hit |-> FALSE]
             ELSE IF MatchesAny(func_name, opts.in_app_exclude)
                  THEN [frame |-> [f1 EXCEPT !.in_app = Some(FALSE)], hit |-> FALSE]
             ELSE IF MatchesAny(func_name, opts.in_app_include)
                  THEN [frame |-> [f1 EXCEPT !.in_app = Some(TRUE)], hit |-> TRUE]
             ELSE IF is_sys_function(func_name)
                  THEN [frame |-> [f1 EXCEPT !.in_app = Some(FALSE)], hit |-> FALSE]
             ELSE [frame |-> f1, hit |-> FALSE]

\* the loop of lines 358-407 from frame i on: the frames and any_in_app
RECURSIVE ClassifyLoop(_, _, _, _)
ClassifyLoop(frames, i, any_in_app, opts) ==
    IF i > Len(frames) THEN [frames |-> frames, any_in_app |-> any_in_app]
    ELSE LET c == ClassifyFrame(frames[i], opts)
         IN  ClassifyLoop([frames EXCEPT ![i] = c.frame], i + 1,
                          any_in_app \/ c.hit, opts)

RECURSIVE PrimeUnset(_, _)
PrimeUnset(frames, i) ==
    IF i > Len(frames) THEN frames
    ELSE PrimeUnset(IF IsNone(frames[i].in_app)
                    THEN [frames EXCEPT ![i].in_app = Some(TRUE)]
                    ELSE frames, i + 1)

\* a fallback that never runs
FallbackNever(frames, any_in_app) == frames

\* lines 409-415
Fallback(frames, any_in_app) ==
    IF ~any_in_app THEN PrimeUnset(frames, 1) ELSE frames

\* one stack trace up to line 408
ClassifiedTrace(frames, opts) == ClassifyLoop(TrimPass(frames, opts), 1, FALSE, opts)

\* one stack trace, lines 346-415
PrepareTrace(frames, opts) ==
    LET c == ClassifiedTrace(frames, opts)
    IN  Fallback(c.frames, c.any_in_app)

RECURSIVE PrepareExceptions(_, _, _)
PrepareExceptions(excs, i, opts) ==
    IF i > Len(excs) THEN excs
    ELSE PrepareExceptions(
            IF IsSome(excs[i].stacktrace)
            THEN [excs EXCEPT ![i].stacktrace =
                      Some(PrepareTrace(Unwrap(excs[i].stacktrace), opts))]
            ELSE excs, i + 1, opts)

RECURSIVE TracesAtLine408(_, _, _)
TracesAtLine408(excs, i, opts) ==
    IF i > Len(excs) THEN excs
    ELSE TracesAtLine408(
            IF IsSome(excs[i].stacktrace)
            THEN [excs EXCEPT ![i].stacktrace =
                      Some(ClassifiedTrace(Unwrap(excs[i].stacktrace), opts).frames)]
            ELSE excs, i + 1, opts)

prepare_event(event, osc, opts) ==
    LET e == ApplyDefaults(ScopeMerge(event, osc), opts)
    IN  [e EXCEPT !.exceptions = PrepareExceptions(e.exceptions, 1, opts)]

(***************************************************************************)
(* ClientOptions::default, lines 69-87, and the values the models draw     *)
(***************************************************************************)
DefaultOptions ==
    [in_app_include      |-> <<>>,
     in_app_exclude      |-> <<>>,
     extra_border_frames |-> <<>>,
     trim_backtraces     |-> TRUE,
     release             |-> None,
     environment         |-> Some("debug"),
     server_name         |-> Some("host")]

DefaultEvent ==
    [breadcrumbs |-> <<>>,
     user        |-> None,
     extra       |-> EmptyMap,
     tags        |-> EmptyMap,
     contexts    |-> EmptyMap,
     transaction |-> None,
     fingerprint |-> <<DefaultFingerprintSpaced>>,
     release     |-> None,
     environment |-> None,
     server_name |-> None,
     sdk_info    |-> None,
     platform    |-> "other",
     debug_meta  |-> <<>>,
     exceptions  |-> <<>>]

DefaultScope ==
    [breadcrumbs |-> <<>>,
     user        |-> None,
     extra       |-> EmptyMap,
     tags        |-> EmptyMap,
     contexts    |-> EmptyMap,
     transaction |-> None,
     fingerprint |-> None]

Keys == 1..MaxKeys

MapVals == {"a", "b"}

Maps == UNION {[S -> MapVals] : S \in SUBSET Keys}

MapFields == {"tags", "extra", "contexts"}

WithMap(r, f, m) ==
    CASE f = "tags"     -> [r EXCEPT !.tags = m]
      [] f = "extra"    -> [r EXCEPT !.extra = m]
      [] f = "contexts" -> [r EXCEPT !.contexts = m]

GetMap(r, f) ==
    CASE f = "tags"     -> r.tags
      [] f = "extra"    -> r.extra
      [] f = "contexts" -> r.contexts

Opt(S) == {None} \cup {Some(x) : x \in S}

EventFingerprints ==
    {<<>>,
     <<DefaultFingerprintSpaced>>,
     <<DefaultFingerprintTight>>,
     <<"custom">>,
     <<DefaultFingerprintSpaced, "custom">>,
     <<DefaultFingerprintTight, DefaultFingerprintSpaced>>}

ScopeFingerprints == {None, Some(<<"scoped">>), Some(<<>>)}

\* records and snapshots that differ in one map
MapInputs ==
    {<<WithMap(DefaultEvent, f, m1), Some(WithMap(DefaultScope, f, m2))>> :
        f \in MapFields, m1 \in Maps, m2 \in Maps}

\* records and snapshots that differ in their breadcrumbs
BreadcrumbInputs ==
    {<<[DefaultEvent EXCEPT !.breadcrumbs = b1],
       Some([DefaultScope EXCEPT !.breadcrumbs = b2])>> :
        b1 \in {<<>>, <<"crumb1">>}, b2 \in {<<>>, <<"crumb2">>}}

FieldEvents ==
    {[DefaultEvent EXCEPT !.user = u, !.transaction = t, !.fingerprint = fp,
                          !.release = r, !.environment = e, !.server_name = s,
                          !.sdk_info = k] :
        u \in Opt({"alice", "bob"}), t \in Opt({"txn1", "txn2"}),
        fp \in EventFingerprints, r \in Opt({"0.9"}), e \in Opt({"staging"}),
        s \in Opt({"box"}), k \in Opt({"custom-sdk"})}

FieldScopes ==
    {None} \cup
    {Some([DefaultScope EXCEPT !.user = u, !.transaction = t, !.fingerprint = fp]) :
        u \in Opt({"bob"}), t \in Opt({"txn2"}), fp \in ScopeFingerprints}

FieldInputs == FieldEvents \X FieldScopes

MergeInputs == MapInputs \cup BreadcrumbInputs \cup FieldInputs

MergeOptions ==
    {[DefaultOptions EXCEPT !.release = r, !.environment = e, !.server_name = s] :
        r \in Opt({"1.0"}), e \in Opt({"debug"}), s \in Opt({"host"})}

\* function names: "a::f", "ab::g", "s::h", "s::p", "x"
FuncNames ==
    {<<"a", ":", ":", "f">>,
     <<"a", "b", ":", ":", "g">>,
     <<"s", ":", ":", "h">>,
     <<"s", ":", ":", "p">>,
     <<"x">>}

Frames ==
    {[function |-> f, package |-> None, in_app |-> a] :
        f \in Opt(FuncNames), a \in Opt(BOOLEAN)}
    \cup
    {[function |-> f, package |-> Some(<<"p", "k", "g">>), in_app |-> None] :
        f \in {None, Some(<<"a", ":", ":", "f">>)}}

SeqsUpTo(S, n) == UNION {[1..k -> S] : k \in 0..n}

\* what follows the first exception of a record
TailExceptions ==
    {<<>>,
     <<[stacktrace |-> None]>>,
     <<[stacktrace |-> Some(<<[function |-> Some(<<"x">>), package |-> None,
                               in_app |-> None]>>)]>>}

FrameEvents ==
    {[DefaultEvent EXCEPT !.exceptions = <<[stacktrace |-> Some(tr)]>> \o tail] :
        tr \in SeqsUpTo(Frames, MaxFrames), tail \in TailExceptions}

FrameInputs == FrameEvents \X {None}

\* include "a" and "s"; exclude "ab"; extra border frame "x"
FrameOptions ==
    {[DefaultOptions EXCEPT !.in_app_include = inc, !.in_app_exclude = exc,
                            !.extra_border_frames = bor, !.trim_backtraces = trim] :
        inc \in {<<>>, <<<<"a">>, <<"s">>>>},
        exc \in {<<>>, <<<<"a", "b">>>>},
        bor \in {<<>>, <<<<"x">>>>},
        trim \in BOOLEAN}

LifeInputs ==
    {<<DefaultEvent, None>>,
     <<[DefaultEvent EXCEPT !.tags = (1 :> "a")],
       Some([DefaultScope EXCEPT !.tags = (1 :> "b"), !.user = Some("bob")])>>}

(***************************************************************************)
(* Client and ClientInitGuard                                              *)
(***************************************************************************)
NilUuid == 0

Holders == 1..MaxHolders

DrainTimeouts == {None, Some(1), Some(2)}

IdleHolder == [pc |-> "idle", timeout |-> None, result |-> None]

\* Transport::new, line 235: a channel with nothing pending
NewTransport == [queue |-> 0]

\* Client::with_dsn_and_options, lines 234-240
with_dsn_and_options == Some(NewTransport)

\* Client::disabled_with_options, lines 255-260
disabled_with_options == None

Enabled == IsSome(transport)

\* a capture that prepares and sends whatever the transport is
capture_event_always(ev, osc) ==
    /\ sendCalls < MaxSends
    /\ input' = ev
    /\ scope' = osc
    /\ sent' = Some(prepare_event(ev, osc, options))
    /\ classified' = TracesAtLine408(ev.exceptions, 1, options)
    /\ prepareCalls' = prepareCalls + 1
    /\ sendCalls' = sendCalls + 1
    /\ transport' = IF Enabled
                    THEN Some([queue |-> Unwrap(transport).queue + 1])
                    ELSE transport
    /\ ret' = sendCalls + 1
    /\ phase' = "captured"
    /\ UNCHANGED <<options, drainers, guard, parseIn, parseOut>>

\* Client::capture_event, lines 433-440
capture_event(ev, osc) ==
    /\ input' = ev
    /\ scope' = osc
    /\ phase' = "captured"
    /\ IF Enabled
       THEN /\ sendCalls < MaxSends
            /\ sent' = Some(prepare_event(ev, osc, options))
            /\ classified' = TracesAtLine408(ev.exceptions, 1, options)
            /\ prepareCalls' = prepareCalls + 1
            /\ sendCalls' = sendCalls + 1
            /\ transport' = Some([queue |-> Unwrap(transport).queue + 1])
            /\ ret' = sendCalls + 1
       ELSE /\ ret' = NilUuid
            /\ UNCHANGED <<sent, classified, prepareCalls, sendCalls, transport>>
    /\ UNCHANGED <<options, drainers, guard, parseIn, parseOut>>

\* Client::drain_events, lines 447-453, called by holder h: a disabled client
\* answers at once, an enabled one waits in Transport::drain
drain_events(h, timeout) ==
    /\ drainers[h].pc = "idle"
    /\ IF Enabled
       THEN drainers' = [drainers EXCEPT ![h] =
                            [pc |-> "waiting", timeout |-> timeout, result |-> None]]
       ELSE drainers' = [drainers EXCEPT ![h] =
                            [pc |-> "idle", timeout |-> None, result |-> Some(TRUE)]]
    /\ phase' = "drain"
    /\ UNCHANGED <<options, transport, input, scope, classified, sent, ret,
                   prepareCalls, sendCalls, guard, parseIn, parseOut>>

\* Transport::drain returns to holder h: true once the queue is empty, false
\* when its timeout elapsed first
TransportDrainReturn(h) ==
    /\ drainers[h].pc = "waiting"
    /\ \/ /\ Unwrap(transport).queue = 0
          /\ drainers' = [drainers EXCEPT ![h] =
                             [pc |-> "idle", timeout |-> None, result |-> Some(TRUE)]]
       \/ /\ Unwrap(transport).queue > 0
          /\ IsSome(drainers[h].timeout)
          /\ drainers' = [drainers EXCEPT ![h] =
                             [pc |-> "idle", timeout |-> None, result |-> Some(FALSE)]]
    /\ phase' = "drain"
    /\ UNCHANGED <<options, transport, input, scope, classified, sent, ret,
                   prepareCalls, sendCalls, guard, parseIn, parseOut>>

\* the transport delivers one pending event in the background
TransportDeliver ==
    /\ Enabled
    /\ Unwrap(transport).queue > 0
    /\ transport' = Some([queue |-> Unwrap(transport).queue - 1])
    /\ phase' = "deliver"
    /\ UNCHANGED <<options, input, scope, classified, sent, ret, prepareCalls,
                   sendCalls, drainers, guard, parseIn, parseOut>>

GuardDrainSecs == 2

\* a teardown that waits without a timeout
GuardDropNoTimeout ==
    /\ guard.pc = "live"
    /\ IF IsSome(guard.client)
       THEN guard' = [guard EXCEPT !.pc = IF Enabled THEN "draining" ELSE "dropped",
                                   !.drainCalls = @ + 1,
                                   !.timeout = None,
                                   !.result = IF Enabled THEN None ELSE Some(TRUE)]
       ELSE guard' = [guard EXCEPT !.pc = "dropped"]
    /\ phase' = "drop"
    /\ UNCHANGED <<options, transport, input, scope, classified, sent, ret,
                   prepareCalls, sendCalls, drainers, parseIn, parseOut>>

\* Drop for ClientInitGuard, lines 473-479: the call of drain_events
GuardDrop ==
    /\ guard.pc = "live"
    /\ IF IsSome(guard.client)
       THEN guard' = [guard EXCEPT !.pc = IF Enabled THEN "draining" ELSE "dropped",
                                   !.drainCalls = @ + 1,
                                   !.timeout = Some(GuardDrainSecs),
                                   !.result = IF Enabled THEN None ELSE Some(TRUE)]
       ELSE guard' = [guard EXCEPT !.pc = "dropped"]
    /\ phase' = "drop"
    /\ UNCHANGED <<options, transport, input, scope, classified, sent, ret,
                   prepareCalls, sendCalls, drainers, parseIn, parseOut>>

\* Drop for ClientInitGuard: drain_events returns and its result is dropped
GuardDrainReturn ==
    /\ guard.pc = "draining"
    /\ \/ /\ Unwrap(transport).queue = 0
          /\ guard' = [guard EXCEPT !.pc = "dropped", !.result = Some(TRUE)]
       \/ /\ Unwrap(transport).queue > 0
          /\ IsSome(guard.timeout)
          /\ guard' = [guard EXCEPT !.pc = "dropped", !.result = Some(FALSE)]
    /\ phase' = "drop"
    /\ UNCHANGED <<options, transport, input, scope, classified, sent, ret,
                   prepareCalls, sendCalls, drainers, parseIn, parseOut>>

LiveGuard(client) ==
    [client |-> client, pc |-> "live", drainCalls |-> 0, timeout |-> None,
     result |-> None]

\* the state every model starts from, but for the client, its options and
\* the guard
InitRest ==
    /\ input = DefaultEvent
    /\ scope = None
    /\ classified = <<>>
    /\ sent = None
    /\ ret = NilUuid
    /\ prepareCalls = 0
    /\ sendCalls = 0
    /\ drainers = [h \in Holders |-> IdleHolder]
    /\ parseIn = <<>>
    /\ parseOut = None
    /\ phase = "init"

(***************************************************************************)
(* Spec: the lifecycle.  init (lines 500-506) either builds an enabled     *)
(* client and a guard holding it, or finds no DSN and returns an empty     *)
(* guard, the application then working with Client::disabled().            *)
(***************************************************************************)
Init ==
    /\ options = DefaultOptions
    /\ \E dsn \in Opt({"dsn"}) :
          IF IsSome(dsn)
          THEN transport = with_dsn_and_options /\ guard = LiveGuard(Some("client"))
          ELSE transport = disabled_with_options /\ guard = LiveGuard(None)
    /\ InitRest

Next ==
    \/ \E in \in LifeInputs : capture_event(in[1], in[2])
    \/ \E h \in Holders, t \in DrainTimeouts : drain_events(h, t)
    \/ \E h \in Holders : TransportDrainReturn(h)
    \/ TransportDeliver
    \/ GuardDrop
    \/ GuardDrainReturn

Spec == Init /\ [][Next]_vars

(***************************************************************************)
(* SpecMerge: prepare_event's scope merge and defaults, one capture on an  *)
(* enabled client with the record, the snapshot and the options drawn      *)
(***************************************************************************)
InitMerge ==
    /\ options \in MergeOptions
    /\ transport = with_dsn_and_options
    /\ guard = LiveGuard(Some("client"))
    /\ InitRest

NextMerge ==
    /\ phase = "init"
    /\ \E in \in MergeInputs : capture_event(in[1], in[2])

SpecMerge == InitMerge /\ [][NextMerge]_vars

(***************************************************************************)
(* SpecFrames: prepare_event's stack trace pass, one capture on an enabled *)
(* client with the record's traces and the options drawn                   *)
(***************************************************************************)
InitFrames ==
    /\ options \in FrameOptions
    /\ transport = with_dsn_and_options
    /\ guard = LiveGuard(Some("client"))
    /\ InitRest

NextFrames ==
    /\ phase = "init"
    /\ \E in \in FrameInputs : capture_event(in[1], in[2])

SpecFrames == InitFrames /\ [][NextFrames]_vars

(***************************************************************************)
(* SpecParse: parse_crate_name applied to one function name, drawn from    *)
(* all short names over a small alphabet and the names of the unit tests   *)
(* (lines 512-534)                                                         *)
(***************************************************************************)
ParseChars == {"a", "Z", "9", "_", "<", ":", ".", " "}

\* "futures::task_impl::std::set"
TestNamePlain ==
    <<"f","u","t","u","r","e","s",":",":","t","a","s","k","_","i","m","p","l",":",":","s","t","d",":",":","s","e","t">>

\* "_<futures..task_impl..Spawn<T>>::enter::_{{closure}}"
TestNameImpl ==
    <<"_","<","f","u","t","u","r","e","s",".",".","t","a","s","k","_","i","m","p","l",".",".","S","p","a","w","n","<","T",">",">",":",":","e","n","t","e","r",":",":","_","{","{","c","l","o","s","u","r","e","}","}">>

\* "_<F as alloc..boxed..FnBox<A>>::call_box"
TestNameUnknown ==
    <<"_","<","F"," ","a","s"," ","a","l","l","o","c",".",".","b","o","x","e","d",".",".","F","n","B","o","x","<","A",">",">",":",":","c","a","l","l","_","b","o","x">>

\* "futures"
Futures == <<"f","u","t","u","r","e","s">>

ParseNames ==
    SeqsUpTo(ParseChars, MaxNameLen)
        \cup {TestNamePlain, TestNameImpl, TestNameUnknown}

InitParse ==
    /\ options = DefaultOptions
    /\ transport = disabled_with_options
    /\ guard = LiveGuard(None)
    /\ input = DefaultEvent
    /\ scope = None
    /\ classified = <<>>
    /\ sent = None
    /\ ret = NilUuid
    /\ prepareCalls = 0
    /\ sendCalls = 0
    /\ drainers = [h \in Holders |-> IdleHolder]
    /\ parseIn \in ParseNames
    /\ parseOut = None
    /\ phase = "init"

ParseCrateName ==
    /\ phase = "init"
    /\ parseOut' = parse_crate_name(parseIn)
    /\ phase' = "parsed"
    /\ UNCHANGED <<options, transport, input, scope, classified, sent, ret,
                   prepareCalls, sendCalls, drainers, guard, parseIn>>

NextParse == ParseCrateName

SpecParse == InitParse /\ [][NextParse]_vars

(***************************************************************************)
(* Properties                                                              *)
(***************************************************************************)
Captured == phase = "captured" /\ IsSome(sent)

SentEvent == Unwrap(sent)

HasTrace(excs, e) == IsSome(excs[e].stacktrace)

TraceOf(excs, e) == Unwrap(excs[e].stacktrace)

C2_SetFieldsKept ==
    Captured =>
        LET e == SentEvent
            su == IF IsSome(scope) THEN Unwrap(scope).user ELSE None
            st == IF IsSome(scope) THEN Unwrap(scope).transaction ELSE None
        IN  /\ e.user = IF IsSome(input.user) THEN input.user ELSE su
            /\ e.transaction =
                   IF IsSome(input.transaction) THEN input.transaction ELSE st
            /\ e.release =
                   IF IsSome(input.release) THEN input.release ELSE options.release
            /\ e.environment =
                   IF IsSome(input.environment) THEN input.environment
                   ELSE options.environment
            /\ e.server_name =
                   IF IsSome(input.server_name) THEN input.server_name
                   ELSE options.server_name
            /\ e.sdk_info =
                   IF IsSome(input.sdk_info) THEN input.sdk_info ELSE Some(SDK_INFO)

C2_Witness ==
    /\ Captured
    /\ IsSome(scope)
    /\ IsSome(input.user) /\ IsSome(Unwrap(scope).user)
    /\ Unwrap(scope).user # input.user
    /\ IsSome(input.transaction) /\ IsSome(Unwrap(scope).transaction)
    /\ Unwrap(scope).transaction # input.transaction
    /\ IsSome(input.release) /\ IsSome(options.release)
    /\ IsSome(input.environment) /\ IsSome(options.environment)
    /\ IsSome(input.server_name) /\ IsSome(options.server_name)
    /\ IsSome(input.sdk_info)
    /\ SentEvent.user = input.user
    /\ SentEvent.release = input.release

\* C3 (as stated): with a snapshot present, the fingerprint is replaced by
\* the snapshot's override if and only if it was exactly ["{{ default }}"]
\* or ["{{default}}"]; otherwise it is left unchanged.
C3_ReplacedIffSentinel ==
    (Captured /\ IsSome(scope)) =>
        IF input.fingerprint \in {<<"{{ default }}">>, <<"{{default}}">>}
        THEN /\ IsSome(Unwrap(scope).fingerprint)
             /\ SentEvent.fingerprint = Unwrap(Unwrap(scope).fingerprint)
        ELSE SentEvent.fingerprint = input.fingerprint

\* C3 (amended): with a snapshot present, the fingerprint is replaced by the
\* snapshot's override if and only if it was exactly ["{{ default }}"] or
\* ["{{default}}"] and the snapshot carries an override; in every other
\* case, a sentinel fingerprint with a snapshot that has no override
\* included, it is left unchanged.
C3_ReplacedIffSentinelAndOverride ==
    (Captured /\ IsSome(scope)) =>
        IF /\ input.fingerprint \in {<<"{{ default }}">>, <<"{{default}}">>}
           /\ IsSome(Unwrap(scope).fingerprint)
        THEN SentEvent.fingerprint = Unwrap(Unwrap(scope).fingerprint)
        ELSE SentEvent.fingerprint = input.fingerprint

C3_Witness ==
    /\ Captured
    /\ IsSome(scope)
    /\ input.fingerprint = <<"{{default}}">>
    /\ Unwrap(scope).fingerprint = Some(<<"scoped">>)
    /\ SentEvent.fingerprint = <<"scoped">>

\* C4: on a disabled client every capture_event returns the nil uuid,
\* prepares nothing and sends nothing, and every drain_events returns true
\* without waiting, whatever its timeout.
C4_DisabledIsInert ==
    ~Enabled =>
        /\ ret = NilUuid
        /\ sent = None
        /\ prepareCalls = 0
        /\ sendCalls = 0
        /\ \A h \in Holders :
              /\ drainers[h].pc = "idle"
              /\ drainers[h].result \in {None, Some(TRUE)}

C4_Witness ==
    /\ ~Enabled
    /\ phase = "captured"
    /\ input # DefaultEvent
    /\ ret = NilUuid
    /\ \A h \in Holders : drainers[h].result = Some(TRUE)

\* C5: the per-frame loop follows explicit flag > exclude list > include
\* list > system function: for every frame with a function name, an in_app
\* of true or false is never changed (not by the fallback either);
\* otherwise a name with an exclude prefix gets false even if it has an
\* include prefix too; otherwise a name with an include prefix gets true
\* even if it is a system function; otherwise a system function gets false
\* and any other name leaves the loop unset.
C5_Precedence ==
    Captured =>
        \A e \in 1..Len(input.exceptions) :
            HasTrace(input.exceptions, e) =>
                LET before == TraceOf(input.exceptions, e)
                    mid    == TraceOf(classified, e)
                    final  == TraceOf(SentEvent.exceptions, e)
                IN  \A i \in 1..Len(mid) :
                        IsSome(before[i].function) =>
                            LET n == Unwrap(before[i].function)
                                excluded == \E j \in 1..Len(options.in_app_exclude) :
                                    StartsWith(n, options.in_app_exclude[j])
                                included == \E j \in 1..Len(options.in_app_include) :
                                    StartsWith(n, options.in_app_include[j])
                            IN  IF IsSome(before[i].in_app)
                                THEN /\ mid[i].in_app = before[i].in_app
                                     /\ final[i].in_app = before[i].in_app
                                ELSE IF excluded THEN mid[i].in_app = Some(FALSE)
                                ELSE IF included THEN mid[i].in_app = Some(TRUE)
                                ELSE IF is_sys_function(n) THEN mid[i].in_app = Some(FALSE)
                                ELSE mid[i].in_app = None

\* a frame "ab::g" with both lists matching ends false, next to a system
\* frame "s::h" that the include list makes true
C5_Witness ==
    /\ Captured
    /\ Len(input.exceptions) >= 1
    /\ HasTrace(input.exceptions, 1)
    /\ LET before == TraceOf(input.exceptions, 1)
           mid    == TraceOf(classified, 1)
       IN  /\ Len(mid) = 2
           /\ before[1] = [function |-> Some(<<"a", "b", ":", ":", "g">>),
                           package |-> None, in_app |-> None]
           /\ before[2] = [function |-> Some(<<"s", ":", ":", "h">>),
                           package |-> None, in_app |-> None]
           /\ options.in_app_include # <<>>
           /\ options.in_app_exclude # <<>>
           /\ mid[1].in_app = Some(FALSE)
           /\ mid[2].in_app = Some(TRUE)

\* C6: per stack trace, if no frame has in_app = true after the per-frame
\* loop, every frame still unset becomes true (frames without a function
\* name too); if at least one frame has in_app = true, the fallback changes
\* no frame.
C6_FallbackPerTrace ==
    Captured =>
        \A e \in 1..Len(input.exceptions) :
            HasTrace(input.exceptions, e) =>
                LET mid   == TraceOf(classified, e)
                    final == TraceOf(SentEvent.exceptions, e)
                IN  /\ Len(final) = Len(mid)
                    /\ IF \E i \in 1..Len(mid) : mid[i].in_app = Some(TRUE)
                       THEN final = mid
                       ELSE \A i \in 1..Len(mid) :
                               final[i] = IF IsNone(mid[i].in_app)
                                          THEN [mid[i] EXCEPT !.in_app = Some(TRUE)]
                                          ELSE mid[i]

\* C7 (as stated): with trim_backtraces false, prepare_event leaves every
\* stack trace unchanged: no frame removed, no package or in_app modified.
C7_NoTrimNoChange ==
    (Captured /\ ~options.trim_backtraces) =>
        SentEvent.exceptions = input.exceptions

\* C7 (amended): with trim_backtraces false, prepare_event removes no frame:
\* every stack trace keeps its length and every frame its function name, a
\* package that was set and an in_app that was true or false; the package
\* and in_app of the other frames are still primed.
C7_NoTrimNoFrameRemoved ==
    (Captured /\ ~options.trim_backtraces) =>
        /\ Len(SentEvent.exceptions) = Len(input.exceptions)
        /\ \A e \in 1..Len(input.exceptions) :
              /\ HasTrace(SentEvent.exceptions, e) = HasTrace(input.exceptions, e)
              /\ HasTrace(input.exceptions, e) =>
                    LET before == TraceOf(input.exceptions, e)
                        final  == TraceOf(SentEvent.exceptions, e)
                    IN  /\ Len(final) = Len(before)
                        /\ \A i \in 1..Len(before) :
                              /\ final[i].function = before[i].function
                              /\ IsSome(before[i].package) =>
                                    final[i].package = before[i].package
                              /\ IsSome(before[i].in_app) =>
                                    final[i].in_app = before[i].in_app

\* no trimming, a trace that ends in the configured border frame "x", and
\* the frames primed all the same
C7_Witness ==
    /\ Captured
    /\ ~options.trim_backtraces
    /\ options.extra_border_frames # <<>>
    /\ HasTrace(input.exceptions, 1)
    /\ LET before == TraceOf(input.exceptions, 1)
           final  == TraceOf(SentEvent.exceptions, 1)
       IN  /\ Len(before) = 2
           /\ before[2].function = Some(<<"x">>)
           /\ before[1].function = Some(<<"a", ":", ":", "f">>)
           /\ IsNone(before[1].package) /\ IsNone(before[1].in_app)
           /\ Len(final) = 2
           /\ final[1].package = Some(<<"a">>)
           /\ IsSome(final[1].in_app)

\* C10 (as stated): after prepare_event every non-empty stack trace holds at
\* least one frame whose in_app is true.
C10_SomeFrameInApp ==
    Captured =>
        \A e \in 1..Len(SentEvent.exceptions) :
            (HasTrace(SentEvent.exceptions, e)
                /\ TraceOf(SentEvent.exceptions, e) # <<>>) =>
                \E i \in 1..Len(TraceOf(SentEvent.exceptions, e)) :
                    TraceOf(SentEvent.exceptions, e)[i].in_app = Some(TRUE)

\* C10 (amended): after prepare_event every non-empty stack trace holds at
\* least one frame whose in_app is true, unless every frame of the trace has
\* in_app = false (tagged false, excluded by prefix or a system function);
\* a trace without a true frame has no unset frame.
C10_SomeFrameInAppOrAllFalse ==
    Captured =>
        \A e \in 1..Len(SentEvent.exceptions) :
            (HasTrace(SentEvent.exceptions, e)
                /\ TraceOf(SentEvent.exceptions, e) # <<>>) =>
                LET final == TraceOf(SentEvent.exceptions, e)
                IN  \/ \E i \in 1..Len(final) : final[i].in_app = Some(TRUE)
                    \/ \A i \in 1..Len(final) : final[i].in_app = Some(FALSE)

\* a trace of two unset frames no rule applies to: the fallback makes both
\* true
C10_Witness ==
    /\ Captured
    /\ HasTrace(input.exceptions, 1)
    /\ LET before == TraceOf(input.exceptions, 1)
           mid    == TraceOf(classified, 1)
           final  == TraceOf(SentEvent.exceptions, 1)
       IN  /\ Len(final) = 2
           /\ \A i \in 1..2 : IsNone(before[i].in_app) /\ IsNone(mid[i].in_app)
           /\ \A i \in 1..2 : final[i].in_app = Some(TRUE)

\* the identifier runs the claim describes: from the beginning of the name,
\* or right after a leading "_<", characters of [a-zA-Z0-9_] only, followed
\* at once by "::" or ".."; each as <<first position, length>>
CrateRuns(name) ==
    LET starts == {1} \cup (IF Len(name) >= 2 /\ SubSeq(name, 1, 2) = <<"_", "<">>
                            THEN {3} ELSE {})
    IN  {r \in starts \X (1..Len(name)) :
            /\ r[1] + r[2] + 1 <= Len(name)
            /\ \A j \in r[1]..(r[1] + r[2] - 1) : IsIdentChar(name[j])
            /\ SubSeq(name, r[1] + r[2], r[1] + r[2] + 1)
                   \in {<<":", ":">>, <<".", ".">>}}

\* C8: parse_crate_name returns the shortest non-empty run of [a-zA-Z0-9_]
\* that starts the name (or follows a leading "_<") and is followed at once
\* by "::" or "..", and nothing when there is no such run; the names of the
\* three unit tests give "futures", "futures" and nothing.
C8_ParseCrateName ==
    phase = "parsed" =>
        /\ IF CrateRuns(parseIn) = {}
           THEN parseOut = None
           ELSE \E r \in CrateRuns(parseIn) :
                   /\ \A q \in CrateRuns(parseIn) : r[2] <= q[2]
                   /\ parseOut = Some(SubSeq(parseIn, r[1], r[1] + r[2] - 1))
        /\ parseIn = TestNamePlain => parseOut = Some(Futures)
        /\ parseIn = TestNameImpl => parseOut = Some(Futures)
        /\ parseIn = TestNameUnknown => parseOut = None

C8_Witness ==
    /\ phase = "parsed"
    /\ parseIn = TestNameImpl
    /\ parseOut = Some(Futures)

\* C9: releasing a guard that holds a client calls drain_events on it
\* exactly once, with a timeout of 1 to 2 seconds and never without one, and
\* the release completes whatever the drain answers: while it waits it can
\* always return; releasing a guard that holds no client calls no drain.
\* Other holders draining at the same time change none of this.
C9_GuardDrainsOnce ==
    /\ guard.drainCalls =
          IF IsSome(guard.client) /\ guard.pc # "live" THEN 1 ELSE 0
    /\ (IsSome(guard.client) /\ guard.pc # "live") =>
          /\ IsSome(guard.timeout)
          /\ Unwrap(guard.timeout) \in 1..2
    /\ guard.pc = "draining" => ENABLED GuardDrainReturn
    /\ (guard.pc = "dropped" /\ IsSome(guard.client)) => IsSome(guard.result)

\* the guard was released while events were pending and another holder was
\* waiting in drain_events; its drain timed out and the release completed
C9_Witness ==
    /\ guard.pc = "dropped"
    /\ IsSome(guard.client)
    /\ guard.drainCalls = 1
    /\ guard.result = Some(FALSE)
    /\ \E h \in Holders : drainers[h].pc = "waiting"

\* a guard without a client was released
C9_WitnessEmpty ==
    /\ guard.pc = "dropped"
    /\ IsNone(guard.client)
    /\ guard.drainCalls = 0

====
